---------------------------- MODULE Spec2Model ----------------------------
(***************************************************************************)
(* Model of arfigyelo_search_mcp: column detection, index preparation and  *)
(* fuzzy search (search.py), the tool layer's payload compaction           *)
(* (server.py) and the download cache (data.py).                           *)
(*                                                                         *)
(* Text is a sequence of characters; a character is a one-character        *)
(* string, except the combining marks, which are named by code point.      *)
(* A score is the exact rational <<num, den>> in lowest terms of the float *)
(* the scorer returns (100 - 100 * dist / lensum).                         *)
(***************************************************************************)
EXTENDS Integers, Sequences, FiniteSets, TLC

(***************************************************************************)
(* Bounds of the model.                                                    *)
(***************************************************************************)
MaxRows == 3
MaxLimit == 2
MaxCalls == 2

(***************************************************************************)
(* Generic sequence helpers.                                               *)
(***************************************************************************)
Range(s) == {s[i] : i \in 1..Len(s)}

RECURSIVE Concat(_)
Concat(ss) == IF ss = <<>> THEN <<>> ELSE Head(ss) \o Concat(Tail(ss))

RECURSIVE Join(_, _)
Join(sep, parts) ==
    IF parts = <<>> THEN <<>>
    ELSE IF Len(parts) = 1 THEN parts[1]
    ELSE parts[1] \o sep \o Join(sep, Tail(parts))

Take(s, n) == SubSeq(s, 1, IF n < Len(s) THEN n ELSE Len(s))

Contains(text, key) ==
    \E i \in 1..(Len(text) - Len(key) + 1) : SubSeq(text, i, i + Len(key) - 1) = key

(***************************************************************************)
(* Characters: code-point order, case, canonical decomposition.            *)
(***************************************************************************)
CombiningAcute == "U+0301"
CombiningDiaeresis == "U+0308"

LowerLetters == <<"a","b","c","d","e","f","g","h","i","j","k","l","m",
                  "n","o","p","q","r","s","t","u","v","w","x","y","z">>
UpperLetters == <<"A","B","C","D","E","F","G","H","I","J","K","L","M",
                  "N","O","P","Q","R","S","T","U","V","W","X","Y","Z">>
Digits == <<"0","1","2","3","4","5","6","7","8","9">>

\* Precomposed letters: <<character, base, mark, lowercase form>>.
Precomposed ==
    << <<"Á", "A", CombiningAcute, "á">>, <<"É", "E", CombiningAcute, "é">>,
       <<"Ó", "O", CombiningAcute, "ó">>, <<"Ö", "O", CombiningDiaeresis, "ö">>,
       <<"á", "a", CombiningAcute, "á">>, <<"é", "e", CombiningAcute, "é">>,
       <<"í", "i", CombiningAcute, "í">>, <<"ó", "o", CombiningAcute, "ó">>,
       <<"ö", "o", CombiningDiaeresis, "ö">> >>

\* The characters of the model in code-point order: U+0020, U+0028, U+0029,
\* U+002D, U+002E, the digits, A-Z, U+005F, a-z, U+007C, then U+00C1, U+00C9,
\* U+00D3, U+00D6, U+00E1, U+00E9, U+00ED, U+00F3, U+00F6, U+0301, U+0308.
CodePoints ==
    <<" ", "(", ")", "-", ".">> \o Digits \o UpperLetters \o <<"_">>
    \o LowerLetters \o <<"|">>
    \o <<"Á", "É", "Ó", "Ö", "á", "é", "í", "ó", "ö">>
    \o <<CombiningAcute, CombiningDiaeresis>>

Ord(c) == CHOOSE i \in 1..Len(CodePoints) : CodePoints[i] = c

IsSpace(c) == c = " "

\* unicodedata.category(c) = "Mn"
IsMn(c) == c \in {CombiningAcute, CombiningDiaeresis}

\* unicodedata.normalize("NFD", c) of one character
NFDChar(c) ==
    IF \E i \in 1..Len(Precomposed) : Precomposed[i][1] = c
    THEN LET p == Precomposed[CHOOSE i \in 1..Len(Precomposed) : Precomposed[i][1] = c]
         IN  <<p[2], p[3]>>
    ELSE <<c>>

NFD(text) == Concat([i \in 1..Len(text) |-> NFDChar(text[i])])

\* str.lower() of one character
LowerChar(c) ==
    IF \E i \in 1..26 : UpperLetters[i] = c
    THEN LowerLetters[CHOOSE i \in 1..26 : UpperLetters[i] = c]
    ELSE IF \E i \in 1..Len(Precomposed) : Precomposed[i][1] = c
    THEN Precomposed[CHOOSE i \in 1..Len(Precomposed) : Precomposed[i][1] = c][4]
    ELSE c

Lower(text) == [i \in 1..Len(text) |-> LowerChar(text[i])]

RECURSIVE LStrip(_)
LStrip(text) ==
    IF text # <<>> /\ IsSpace(Head(text)) THEN LStrip(Tail(text)) ELSE text

RECURSIVE RStrip(_)
RStrip(text) ==
    IF text # <<>> /\ IsSpace(text[Len(text)])
    THEN RStrip(SubSeq(text, 1, Len(text) - 1)) ELSE text

\* str.strip()
Strip(text) == RStrip(LStrip(text))

(***************************************************************************)
(* Cell values.  A cell read out of a DataFrame is a str, a numpy int64, a *)
(* numpy float64, NaN (a float64) or None.                                 *)
(***************************************************************************)
StrCell(s) == [t |-> "str", s |-> s, n |-> 0]
IntCell(n) == [t |-> "int64", s |-> <<>>, n |-> n]
FloatCell(n) == [t |-> "float64", s |-> <<>>, n |-> n]
NaN == [t |-> "nan", s |-> <<>>, n |-> 0]
None == [t |-> "none", s |-> <<>>, n |-> 0]

RECURSIVE NatToText(_)
NatToText(n) ==
    IF n < 10 THEN <<Digits[n + 1]>>
    ELSE NatToText(n \div 10) \o <<Digits[(n % 10) + 1]>>

\* str(value)
Str(value) ==
    CASE value.t = "str" -> value.s
      [] value.t = "int64" -> NatToText(value.n)
      [] value.t = "float64" -> NatToText(value.n) \o <<".", "0">>
      [] value.t = "nan" -> <<"n", "a", "n">>
      [] value.t = "none" -> <<"N", "o", "n", "e">>

\* value is None or (isinstance(value, float) and math.isnan(value))
IsMissing(value) == value.t \in {"none", "nan"}

NotMn(c) == ~IsMn(c)

strip_accents(value) == SelectSeq(NFD(value), NotMn)

normalize_text(value) ==
    IF IsMissing(value) THEN <<>>
    ELSE Strip(Lower(strip_accents(Str(value))))

(***************************************************************************)
(* DataFrame: [columns |-> sequence of column names, rows |-> sequence of  *)
(* rows], a row being the sequence of the cells in column order.           *)
(***************************************************************************)
ColumnIndex(df, col) == CHOOSE j \in 1..Len(df.columns) : df.columns[j] = col

HasColumn(df, col) == \E j \in 1..Len(df.columns) : df.columns[j] = col

\* df[col].dtype, as pandas infers it from the values of the column
ColumnDtype(df, col) ==
    LET j == ColumnIndex(df, col)
        kinds == {df.rows[i][j].t : i \in 1..Len(df.rows)}
    IN  IF kinds = {} THEN "object"
        ELSE IF kinds = {"int64"} THEN "int64"
        ELSE IF kinds \subseteq {"int64", "float64", "nan"} THEN "float64"
        ELSE "object"

\* pd.api.types.is_numeric_dtype(df[col])
is_numeric_dtype(df, col) == ColumnDtype(df, col) \in {"int64", "float64"}

\* df[name] = values: replaces the column when it exists, appends it otherwise
SetColumn(df, name, values) ==
    IF HasColumn(df, name)
    THEN [df EXCEPT !.rows = [i \in 1..Len(df.rows) |->
                                 [df.rows[i] EXCEPT ![ColumnIndex(df, name)] = values[i]]]]
    ELSE [columns |-> Append(df.columns, name),
          rows |-> [i \in 1..Len(df.rows) |-> Append(df.rows[i], values[i])]]

\* The row handed to the callback of df.apply(..., axis=1): a Series of the
\* frame's common dtype, so an all-numeric frame with a float column hands
\* out its integers as floats.
ApplyRow(df, i) ==
    LET dtypes == {ColumnDtype(df, df.columns[j]) : j \in 1..Len(df.columns)}
        upcast == dtypes \subseteq {"int64", "float64"} /\ "float64" \in dtypes
    IN  [col \in Range(df.columns) |->
            LET cell == df.rows[i][ColumnIndex(df, col)]
            IN  IF upcast /\ cell.t = "int64" THEN FloatCell(cell.n) ELSE cell]

\* df.iloc[i] of a frame that holds at least one object column (every frame
\* that prepare_index returned): the cells as they are stored.
ILocRow(df, i) ==
    [col \in Range(df.columns) |-> df.rows[i][ColumnIndex(df, col)]]

\* row.get(col)
RowGet(row, col) == IF col \in DOMAIN row THEN row[col] ELSE None

(***************************************************************************)
(* detect_columns                                                          *)
(***************************************************************************)
SearchTextColumn == <<"_","_","s","e","a","r","c","h","_","t","e","x","t">>
LabelColumn == <<"_","_","l","a","b","e","l">>

NameKeys ==
    << <<"t","e","r","m","e","k">>, <<"t","e","r","m","é","k">>,
       <<"m","e","g","n","e","v","e","z">>, <<"p","r","o","d","u","c","t">>,
       <<"i","t","e","m">>, <<"c","i","k","k">> >>
BrandKeys ==
    << <<"m","a","r","k","a">>, <<"m","á","r","k","a">>, <<"b","r","a","n","d">> >>
StoreKeys ==
    << <<"a","r","u","h","a","z">>, <<"á","r","u","h","á","z">>, <<"b","o","l","t">>,
       <<"l","a","n","c">>, <<"l","á","n","c">>, <<"s","t","o","r","e">> >>
PriceKeys ==
    << <<"a","r">>, <<"á","r">>, <<"b","r","u","t","t","o">>,
       <<"b","r","u","t","t","ó">>, <<"p","r","i","c","e">> >>
IdKeys ==
    << <<"i","d">>, <<"a","z","o","n","o","s","i","t","o">>,
       <<"a","z","o","n","o","s","í","t","ó">>, <<"e","a","n">>, <<"g","t","i","n">> >>

SPECIAL_KEYS ==
    [name |-> NameKeys, brand |-> BrandKeys, store |-> StoreKeys,
     price |-> PriceKeys, id |-> IdKeys]

\* any(key in lowered for key in keys)
AnyKeyIn(keys, lowered) == \E k \in 1..Len(keys) : Contains(lowered, keys[k])

\* pick(keys) of detect_columns
pick(df, keys) ==
    SelectSeq(df.columns, LAMBDA col : AnyKeyIn(keys, normalize_text(StrCell(col))))

\* the keyword-detected columns without the test of the value kind
PriceByKeyword_any_dtype(df) == pick(df, SPECIAL_KEYS.price)

\* the keyword-detected numeric columns
PriceByKeyword(df) ==
    SelectSeq(df.columns,
              LAMBDA col : AnyKeyIn(SPECIAL_KEYS.price, normalize_text(StrCell(col)))
                           /\ is_numeric_dtype(df, col))

NumericColumns(df) == SelectSeq(df.columns, LAMBDA col : is_numeric_dtype(df, col))

\* the name columns without the fallback to the first column
NameColumns_no_fallback(df) == pick(df, SPECIAL_KEYS.name)

NameColumns(df) ==
    IF pick(df, SPECIAL_KEYS.name) # <<>> THEN pick(df, SPECIAL_KEYS.name)
    ELSE <<df.columns[1]>>

PriceColumns(df) ==
    IF PriceByKeyword(df) # <<>> THEN PriceByKeyword(df) ELSE NumericColumns(df)

detect_columns(df) ==
    [name_columns |-> NameColumns(df),
     brand_columns |-> pick(df, SPECIAL_KEYS.brand),
     store_columns |-> pick(df, SPECIAL_KEYS.store),
     price_columns |-> PriceColumns(df),
     id_columns |-> pick(df, SPECIAL_KEYS.id)]

(***************************************************************************)
(* build_search_text, prepare_index                                        *)
(***************************************************************************)
NonEmptyText(text) == text # <<>>

build_search_text(row, schema) ==
    LET cols == schema.name_columns \o schema.brand_columns
        values == [k \in 1..Len(cols) |-> normalize_text(RowGet(row, cols[k]))]
    IN  Join(<<" ">>, SelectSeq(values, NonEmptyText))

\* df[cols].astype(str).agg(" | ".join, axis=1), with the brand suffix
RowLabel(df, i, schema) ==
    LET names == [k \in 1..Len(schema.name_columns) |->
                     Str(df.rows[i][ColumnIndex(df, schema.name_columns[k])])]
        joined == Join(<<" ", "|", " ">>, names)
    IN  IF schema.brand_columns # <<>>
        THEN joined \o <<" ", "(">>
             \o Str(df.rows[i][ColumnIndex(df, schema.brand_columns[1])]) \o <<")">>
        ELSE joined

\* The frame prepare_index returns.
IndexedFrame(df, schema) ==
    LET withText == SetColumn(df, SearchTextColumn,
                       [i \in 1..Len(df.rows) |->
                           StrCell(build_search_text(ApplyRow(df, i), schema))])
    IN  SetColumn(withText, LabelColumn,
                  [i \in 1..Len(df.rows) |-> StrCell(RowLabel(withText, i, schema))])

\* Optional[ColumnSchema]
EmptySchema ==
    [name_columns |-> <<>>, brand_columns |-> <<>>, store_columns |-> <<>>,
     price_columns |-> <<>>, id_columns |-> <<>>]
NoSchema == [some |-> FALSE, v |-> EmptySchema]
SomeSchema(schema) == [some |-> TRUE, v |-> schema]

\* schema or detect_columns(df)
SchemaOr(schema, df) == IF schema.some THEN schema.v ELSE detect_columns(df)

\* prepare_index writing the derived columns into the caller's frame
prepare_index_in_place(df, schema) ==
    [arg |-> IndexedFrame(df, SchemaOr(schema, df)),
     out |-> IndexedFrame(df, SchemaOr(schema, df))]

\* prepare_index(df, schema): arg is the caller's frame after the call (the
\* function works on df.copy()), out is the frame returned.
prepare_index(df, schema) ==
    [arg |-> df, out |-> IndexedFrame(df, SchemaOr(schema, df))]

(***************************************************************************)
(* Scores: exact rationals <<num, den>> in lowest terms.                   *)
(***************************************************************************)
RECURSIVE GCD(_, _)
GCD(a, b) == IF b = 0 THEN a ELSE GCD(b, a % b)

Rat(num, den) == LET g == GCD(num, den) IN <<num \div g, den \div g>>

ScoreLt(a, b) == a[1] * b[2] < b[1] * a[2]
ScoreLe(a, b) == a[1] * b[2] <= b[1] * a[2]
ScoreMax(a, b) == IF ScoreLt(a, b) THEN b ELSE a

(***************************************************************************)
(* rapidfuzz.fuzz.token_set_ratio, the scorer search_products passes to    *)
(* process.extract.                                                        *)
(***************************************************************************)
\* One row of the longest-common-subsequence table.
RECURSIVE LcsRow(_, _, _, _)
LcsRow(prev, ch, b, acc) ==
    IF Len(acc) = Len(b) + 1 THEN acc
    ELSE LET j == Len(acc)
             v == IF ch = b[j] THEN prev[j] + 1
                  ELSE IF prev[j + 1] > acc[j] THEN prev[j + 1] ELSE acc[j]
         IN  LcsRow(prev, ch, b, Append(acc, v))

RECURSIVE LcsTable(_, _, _)
LcsTable(a, b, prev) ==
    IF a = <<>> THEN prev
    ELSE LcsTable(Tail(a), b, LcsRow(prev, Head(a), b, <<0>>))

LCS(a, b) == LcsTable(a, b, [j \in 1..(Len(b) + 1) |-> 0])[Len(b) + 1]

\* minimum number of insertions and deletions that turn a into b
indel_distance(a, b) == Len(a) + Len(b) - 2 * LCS(a, b)

\* 100 - 100 * dist / lensum, and 100 for lensum = 0
norm_distance(dist, lensum) ==
    IF lensum > 0 THEN Rat(100 * (lensum - dist), lensum) ELSE <<100, 1>>

\* str.split(): the maximal runs of non-whitespace characters
RECURSIVE Split(_, _)
Split(text, cur) ==
    IF text = <<>> THEN (IF cur = <<>> THEN <<>> ELSE <<cur>>)
    ELSE IF IsSpace(Head(text))
    THEN (IF cur = <<>> THEN <<>> ELSE <<cur>>) \o Split(Tail(text), <<>>)
    ELSE Split(Tail(text), Append(cur, Head(text)))

Tokens(text) == Range(Split(text, <<>>))

\* a < b for two strings, by code point
RECURSIVE TextLess(_, _)
TextLess(a, b) ==
    IF b = <<>> THEN FALSE
    ELSE IF a = <<>> THEN TRUE
    ELSE IF Head(a) = Head(b) THEN TextLess(Tail(a), Tail(b))
    ELSE Ord(Head(a)) < Ord(Head(b))

\* sorted(tokens)
RECURSIVE SortedTokens(_)
SortedTokens(tokens) ==
    IF tokens = {} THEN <<>>
    ELSE LET least == CHOOSE t \in tokens : \A u \in tokens \ {t} : TextLess(t, u)
         IN  <<least>> \o SortedTokens(tokens \ {least})

JoinedTokens(tokens) == Join(<<" ">>, SortedTokens(tokens))

\* token_set_ratio of two strings that both hold a token
TokenSetScore(s1, s2) ==
    LET tokens_a == Tokens(s1)
        tokens_b == Tokens(s2)
        intersect == tokens_a \cap tokens_b
        diff_ab == tokens_a \ tokens_b
        diff_ba == tokens_b \ tokens_a
        diff_ab_joined == JoinedTokens(diff_ab)
        diff_ba_joined == JoinedTokens(diff_ba)
        ab_len == Len(diff_ab_joined)
        ba_len == Len(diff_ba_joined)
        sect_len == Len(JoinedTokens(intersect))
        sep == IF sect_len # 0 THEN 1 ELSE 0
        sect_ab_len == sect_len + sep + ab_len
        sect_ba_len == sect_len + sep + ba_len
        result == norm_distance(indel_distance(diff_ab_joined, diff_ba_joined),
                                sect_ab_len + sect_ba_len)
        sect_ab_ratio == norm_distance(sep + ab_len, sect_len + sect_ab_len)
        sect_ba_ratio == norm_distance(sep + ba_len, sect_len + sect_ba_len)
    IN  IF intersect # {} /\ (diff_ab = {} \/ diff_ba = {}) THEN <<100, 1>>
        ELSE IF sect_len = 0 THEN result
        ELSE ScoreMax(ScoreMax(result, sect_ab_ratio), sect_ba_ratio)

\* a scorer that takes two empty strings for identical
token_set_ratio_empty_equal(s1, s2) ==
    IF Tokens(s1) = {} /\ Tokens(s2) = {} THEN <<100, 1>>
    ELSE IF Tokens(s1) = {} \/ Tokens(s2) = {} THEN <<0, 1>>
    ELSE TokenSetScore(s1, s2)

\* fuzz.token_set_ratio(s1, s2): 0 when either string is empty or holds no
\* token
token_set_ratio(s1, s2) ==
    IF s1 = <<>> \/ s2 = <<>> THEN <<0, 1>>
    ELSE IF Tokens(s1) = {} \/ Tokens(s2) = {} THEN <<0, 1>>
    ELSE TokenSetScore(s1, s2)

(***************************************************************************)
(* rapidfuzz.process.extract(query, choices, scorer=token_set_ratio,       *)
(* limit=limit): entries [text, score, idx], idx counted from 0.           *)
(***************************************************************************)
ScoreAll(query, choices) ==
    [i \in 1..Len(choices) |->
        [text |-> choices[i], score |-> token_set_ratio(query, choices[i]), idx |-> i - 1]]

\* sorted(entries, key=score, reverse=True): a stable sort
RECURSIVE InsertByScore(_, _)
InsertByScore(sorted, e) ==
    IF sorted = <<>> THEN <<e>>
    ELSE IF ScoreLt(Head(sorted).score, e.score) THEN <<e>> \o sorted
    ELSE <<Head(sorted)>> \o InsertByScore(Tail(sorted), e)

RECURSIVE SortByScore(_, _)
SortByScore(entries, acc) ==
    IF entries = <<>> THEN acc
    ELSE SortByScore(Tail(entries), InsertByScore(acc, Head(entries)))

\* extractOne: the first entry with the highest score
RECURSIVE ExtractOne(_, _)
ExtractOne(entries, best) ==
    IF entries = <<>> THEN best
    ELSE IF best = <<>> \/ ScoreLt(best[1].score, Head(entries).score)
    THEN ExtractOne(Tail(entries), <<Head(entries)>>)
    ELSE ExtractOne(Tail(entries), best)

\* process_extract without the cut to `limit` entries
process_extract_unlimited(query, choices, limit) ==
    SortByScore(ScoreAll(query, choices), <<>>)

process_extract(query, choices, limit) ==
    IF limit = 1 THEN ExtractOne(ScoreAll(query, choices), <<>>)
    ELSE Take(SortByScore(ScoreAll(query, choices), <<>>), limit)

(***************************************************************************)
(* search_products and its helpers                                         *)
(***************************************************************************)
\* Optional[str]
Absent == [some |-> FALSE, v |-> <<>>]
Present(text) == [some |-> TRUE, v |-> text]

\* isinstance(value, (int, float)): a Python float or a numpy float64 (NaN
\* included) is an instance of float; a numpy int64 is an instance of neither.
IsIntOrFloat(value) == value.t \in {"float64", "nan"}

\* math.isnan(value)
IsNaN(value) == value.t = "nan"

_extract_prices(row, schema) ==
    LET keep == {col \in Range(schema.price_columns) :
                    IsIntOrFloat(RowGet(row, col)) /\ ~IsNaN(RowGet(row, col))}
    IN  [col \in keep |-> RowGet(row, col).n]

\* pd.notna(value)
NotNa(value) == ~IsMissing(value)

RECURSIVE _first_non_empty(_, _)
_first_non_empty(row, columns) ==
    IF columns = <<>> THEN Absent
    ELSE LET value == RowGet(row, Head(columns))
         IN  IF NotNa(value) /\ Strip(Str(value)) # <<>>
             THEN Present(Strip(Str(value)))
             ELSE _first_non_empty(row, Tail(columns))

\* the test with <= for <
BelowOrAtMinScore(score, min_score) == ScoreLe(score, min_score)

\* score < min_score, the test that skips a scored entry
BelowMinScore(score, min_score) == ScoreLt(score, min_score)

MatchResult(df, schema, entry) ==
    LET row == ILocRow(df, entry.idx + 1)
    IN  [label |-> Str(IF LabelColumn \in DOMAIN row THEN row[LabelColumn]
                       ELSE StrCell(entry.text)),
         score |-> entry.score,
         store |-> _first_non_empty(row, schema.store_columns),
         prices |-> _extract_prices(row, schema),
         brand |-> _first_non_empty(row, schema.brand_columns),
         product_id |-> _first_non_empty(row, schema.id_columns),
         source_row |-> row]

\* the loop over the scored entries
RECURSIVE Assemble(_, _, _, _)
Assemble(df, schema, scored, min_score) ==
    IF scored = <<>> THEN <<>>
    ELSE IF BelowMinScore(Head(scored).score, min_score)
    THEN Assemble(df, schema, Tail(scored), min_score)
    ELSE <<MatchResult(df, schema, Head(scored))>>
         \o Assemble(df, schema, Tail(scored), min_score)

\* df["__search_text"].tolist()
Candidates(df) ==
    [i \in 1..Len(df.rows) |-> df.rows[i][ColumnIndex(df, SearchTextColumn)].s]

\* search_products(df, query, limit, min_score, schema): arg is the caller's
\* frame after the call, scored the list process.extract returned, results
\* the list returned.
search_products(df, query, limit, min_score, schema) ==
    LET unprepared == ~HasColumn(df, SearchTextColumn)
        used == SchemaOr(schema, df)
        prepared == prepare_index(df, SomeSchema(used))
        frame == IF unprepared THEN prepared.out ELSE df
        normalized_query == normalize_text(StrCell(query))
        scored == process_extract(normalized_query, Candidates(frame), limit)
    IN  [arg |-> IF unprepared THEN prepared.arg ELSE df,
         frame |-> frame,
         schema |-> used,
         scored |-> scored,
         results |-> Assemble(frame, used, scored, min_score)]

(***************************************************************************)
(* server.py: _compact_row, _result_to_dict                                *)
(***************************************************************************)
\* str(k).startswith("__")
IsHelperKey(k) == Len(k) >= 2 /\ k[1] = "_" /\ k[2] = "_"

\* _compact_row dropping the search text only
_compact_row_keeps_label(row) == [k \in DOMAIN row \ {SearchTextColumn} |-> row[k]]

_compact_row(row) == [k \in {c \in DOMAIN row : ~IsHelperKey(c)} |-> row[k]]

_result_to_dict(result) == [result EXCEPT !.source_row = _compact_row(result.source_row)]

(***************************************************************************)
(* The tables, queries and parameters of the model.                        *)
(***************************************************************************)
TermekNev == <<"T","e","r","m","é","k"," ","n","é","v">>
Marka == <<"M","á","r","k","a">>
Bolt == <<"B","o","l","t">>
BruttoAr == <<"B","r","u","t","t","ó"," ","á","r">>
Mennyiseg == <<"M","e","n","n","y","i","s","é","g">>
Ean == <<"E","A","N">>
Cikk == <<"C","i","k","k">>
Ar == <<"Á","r">>

Kola1l == StrCell(<<"K","ó","l","a"," ","1","l">>)
Tej == StrCell(<<"T","e","j">>)
TejLower == StrCell(<<"t","e","j"," ">>)
Coca == StrCell(<<"C","o","c","a">>)
Tesco == StrCell(<<"T","e","s","c","o">>)
LidlPadded == StrCell(<<" ","L","i","d","l"," ">>)
Blank == StrCell(<<" ">>)
Dash == StrCell(<<"-">>)

\* Each layout: the columns and the rows a table of the layout may hold.
\* Within a layout every column has one value kind, as in a frame read from
\* a spreadsheet.
Layouts ==
    << [columns |-> <<TermekNev, Marka, Bolt, BruttoAr>>,
        pool |-> { <<Kola1l, Coca, Tesco, IntCell(699)>>,
                   <<NaN, NaN, LidlPadded, IntCell(650)>> }],
       [columns |-> <<TermekNev, Marka, Bolt, BruttoAr>>,
        pool |-> { <<Tej, NaN, NaN, NaN>>,
                   <<Kola1l, Coca, LidlPadded, FloatCell(650)>> }],
       [columns |-> <<Bolt, Mennyiseg, Ean>>,
        pool |-> { <<Tesco, FloatCell(2), IntCell(11)>>,
                   <<Blank, NaN, IntCell(12)>> }],
       [columns |-> <<Mennyiseg, BruttoAr>>,
        pool |-> { <<IntCell(1), FloatCell(2)>>,
                   <<IntCell(2), NaN>> }],
       [columns |-> <<Cikk, Ar>>,
        pool |-> { <<Tej, Dash>>, <<TejLower, NaN>> }] >>

RowSeqs(pool) == UNION {[1..n -> pool] : n \in 1..MaxRows}

Tables ==
    UNION {{[columns |-> Layouts[k].columns, rows |-> rows] :
               rows \in RowSeqs(Layouts[k].pool)} : k \in 1..Len(Layouts)}

Queries ==
    { <<>>,
      <<"K","Ó","L","A">>,
      <<" ","t","e","j"," ","1","l">>,
      <<"t","e","s","c","o">>,
      <<"1">> }

MinScores == { <<0, 1>>, <<45, 1>>, <<50, 1>> }

Limits == 0..MaxLimit

(***************************************************************************)
(* State.  One run of the pipeline: the caller's table, then the results   *)
(* of detect_columns, prepare_index, search_products and _result_to_dict;  *)
(* and the download cache: the cache directory, the files and the calls of *)
(* download_excel in progress.                                             *)
(***************************************************************************)
VARIABLES pc, table, schema, indexed, query, limit, min_score, scored,
          results, payload, names, inodes, proc

searchVars == <<pc, table, schema, indexed, query, limit, min_score, scored,
                results, payload>>
cacheVars == <<names, inodes, proc>>
vars == <<pc, table, schema, indexed, query, limit, min_score, scored,
          results, payload, names, inodes, proc>>

NoFrame == [columns |-> <<>>, rows |-> <<>>]

Procs == {1, 2}
NumChunks == 2
IdleProc == [pc |-> "idle", force |-> FALSE, fd |-> 0, off |-> 0, buf |-> 0,
             net |-> FALSE, outcome |-> "none", calls |-> 0]

InitSearch ==
    /\ pc = "loaded"
    /\ schema = NoSchema
    /\ indexed = NoFrame
    /\ query = <<>>
    /\ limit = 0
    /\ min_score = <<0, 1>>
    /\ scored = <<>>
    /\ results = <<>>
    /\ payload = <<>>

InitCache ==
    /\ names = [tmp |-> 0, dest |-> 0]
    /\ inodes = <<>>
    /\ proc = [p \in Procs |-> IdleProc]

Init == table \in Tables /\ InitSearch /\ InitCache

(***************************************************************************)
(* The pipeline, as server.py and cli.py drive it.                         *)
(***************************************************************************)
\* server._load_index: schema = detect_columns(frame)
Detect ==
    /\ pc = "loaded"
    /\ schema' = SomeSchema(detect_columns(table))
    /\ pc' = "detected"
    /\ UNCHANGED <<table, indexed, query, limit, min_score, scored, results, payload>>
    /\ UNCHANGED cacheVars

\* server._load_index: prepare_index(frame, schema); cli.main: prepare_index(df)
PrepareIndex ==
    /\ pc \in {"loaded", "detected"}
    /\ \E r \in {prepare_index(table, schema)} :
           table' = r.arg /\ indexed' = r.out
    /\ pc' = "indexed"
    /\ UNCHANGED <<schema, query, limit, min_score, scored, results, payload>>
    /\ UNCHANGED cacheVars

\* search_products on the prepared frame (server, cli) or on the raw table
Search(q, lim, ms) ==
    /\ pc \in {"loaded", "indexed"}
    /\ \E r \in {search_products(IF pc = "indexed" THEN indexed ELSE table,
                                   q, lim, ms, schema)} :
           /\ table' = (IF pc = "indexed" THEN table ELSE r.arg)
           /\ indexed' = r.frame
           /\ schema' = SomeSchema(r.schema)
           /\ scored' = r.scored
           /\ results' = r.results
    /\ query' = q
    /\ limit' = lim
    /\ min_score' = ms
    /\ pc' = "searched"
    /\ UNCHANGED payload
    /\ UNCHANGED cacheVars

\* server.search_products_tool: [_result_to_dict(match) for match in matches]
ResultToDict ==
    /\ pc = "searched"
    /\ payload' = [i \in 1..Len(results) |-> _result_to_dict(results[i])]
    /\ pc' = "served"
    /\ UNCHANGED <<table, schema, indexed, query, limit, min_score, scored, results>>
    /\ UNCHANGED cacheVars

Next ==
    \/ Detect
    \/ PrepareIndex
    \/ \E q \in Queries, lim \in Limits, ms \in MinScores : Search(q, lim, ms)
    \/ ResultToDict

Spec == Init /\ [][Next]_vars

(***************************************************************************)
(* data.download_excel.  The cache directory maps the two file names to    *)
(* inodes (0: no such file); an inode's content is the sequence of chunks  *)
(* written so far, 0 standing for a hole.  A call runs in a process of its *)
(* own: its steps interleave with the steps of the other process.  The     *)
(* handle is a buffered writer: of the off chunks handed to it, the last   *)
(* buf are still in its buffer; what a write does with the buffer depends  *)
(* on the size of the chunk, which the response decides.                   *)
(***************************************************************************)
Complete == [i \in 1..NumChunks |-> i]

\* the content after writing chunk at offset off (counted in chunks)
WriteAt(content, off, chunk) ==
    [i \in 1..(IF off + 1 > Len(content) THEN off + 1 ELSE Len(content)) |->
        IF i = off + 1 THEN chunk
        ELSE IF i <= Len(content) THEN content[i] ELSE 0]

\* destination.exists() and not force: return destination; otherwise go on
\* to the request.
Call(p, force) ==
    /\ proc[p].pc = "idle"
    /\ proc[p].calls < MaxCalls
    /\ proc' = [proc EXCEPT ![p] =
                  IF names.dest # 0 /\ ~force
                  THEN [@ EXCEPT !.force = force, !.net = FALSE, !.outcome = "cached",
                                 !.calls = @ + 1]
                  ELSE [@ EXCEPT !.pc = "get", !.force = force, !.net = FALSE,
                                 !.outcome = "none", !.calls = @ + 1]]
    /\ UNCHANGED <<names, inodes>>
    /\ UNCHANGED searchVars

\* session.get(...); response.raise_for_status()
Get(p, ok) ==
    /\ proc[p].pc = "get"
    /\ proc' = [proc EXCEPT ![p] =
                  IF ok THEN [@ EXCEPT !.pc = "open", !.net = TRUE]
                  ELSE [@ EXCEPT !.pc = "idle", !.net = TRUE, !.outcome = "error"]]
    /\ UNCHANGED <<names, inodes>>
    /\ UNCHANGED searchVars

\* the content after the handle wrote out its buffer: the last buf of the off
\* chunks it was handed, each at its own offset
Flushed(content, off, buf) ==
    [i \in 1..(IF buf > 0 /\ off > Len(content) THEN off ELSE Len(content)) |->
        IF off - buf < i /\ i <= off THEN i
        ELSE IF i <= Len(content) THEN content[i] ELSE 0]

\* temp_path.open("wb"): creates the file, or truncates the one of that name
Open(p) ==
    /\ proc[p].pc = "open"
    /\ IF names.tmp = 0
       THEN /\ inodes' = Append(inodes, <<>>)
            /\ names' = [names EXCEPT !.tmp = Len(inodes) + 1]
       ELSE /\ inodes' = [inodes EXCEPT ![names.tmp] = <<>>]
            /\ names' = names
    /\ proc' = [proc EXCEPT ![p] =
                  [@ EXCEPT !.pc = "write", !.fd = names'.tmp, !.off = 0, !.buf = 0]]
    /\ UNCHANGED searchVars

\* handle.write(chunk), by the size of the chunk:
\*   "buffer"   it fits beside what the buffer holds: it is copied there;
\*   "spill"    it does not fit beside what the buffer holds, but fits the
\*              empty buffer: the buffer is written out, the chunk is kept;
\*   "through"  it is larger than the buffer: the buffer is written out, and
\*              the chunk is then written by a system call of its own
\*              (RawWrite), between which the other call can run.
WriteModes == {"buffer", "spill", "through"}

Write(p, mode) ==
    /\ proc[p].pc = "write"
    /\ proc[p].off < NumChunks
    /\ mode \in WriteModes
    /\ mode = "spill" => proc[p].buf > 0
    /\ CASE mode = "buffer" ->
              /\ inodes' = inodes
              /\ proc' = [proc EXCEPT ![p] = [@ EXCEPT !.off = @ + 1, !.buf = @ + 1]]
         [] mode = "spill" ->
              /\ inodes' = [inodes EXCEPT ![proc[p].fd] =
                              Flushed(@, proc[p].off, proc[p].buf)]
              /\ proc' = [proc EXCEPT ![p] = [@ EXCEPT !.off = @ + 1, !.buf = 1]]
         [] mode = "through" /\ proc[p].buf = 0 ->
              /\ inodes' = [inodes EXCEPT ![proc[p].fd] =
                              WriteAt(@, proc[p].off, proc[p].off + 1)]
              /\ proc' = [proc EXCEPT ![p] = [@ EXCEPT !.off = @ + 1]]
         [] mode = "through" /\ proc[p].buf > 0 ->
              /\ inodes' = [inodes EXCEPT ![proc[p].fd] =
                              Flushed(@, proc[p].off, proc[p].buf)]
              /\ proc' = [proc EXCEPT ![p] = [@ EXCEPT !.pc = "raw_write", !.buf = 0]]
    /\ UNCHANGED names
    /\ UNCHANGED searchVars

\* the second system call of a handle.write that wrote out the buffer first:
\* the chunk itself, at the position of the handle
RawWrite(p) ==
    /\ proc[p].pc = "raw_write"
    /\ inodes' = [inodes EXCEPT ![proc[p].fd] =
                    WriteAt(@, proc[p].off, proc[p].off + 1)]
    /\ proc' = [proc EXCEPT ![p] = [@ EXCEPT !.pc = "write", !.off = @ + 1]]
    /\ UNCHANGED names
    /\ UNCHANGED searchVars

\* response.iter_content raises at a read, the one after the last chunk
\* included: the with block closes the handle, which writes out its buffer,
\* and the call raises
TransferFails(p) ==
    /\ proc[p].pc = "write"
    /\ inodes' = [inodes EXCEPT ![proc[p].fd] = Flushed(@, proc[p].off, proc[p].buf)]
    /\ proc' = [proc EXCEPT ![p] =
                  [@ EXCEPT !.pc = "idle", !.fd = 0, !.buf = 0, !.outcome = "error"]]
    /\ UNCHANGED names
    /\ UNCHANGED searchVars

\* the end of the with block after the last chunk: the handle writes out its
\* buffer and closes
Close(p) ==
    /\ proc[p].pc = "write"
    /\ proc[p].off = NumChunks
    /\ inodes' = [inodes EXCEPT ![proc[p].fd] = Flushed(@, proc[p].off, proc[p].buf)]
    /\ proc' = [proc EXCEPT ![p] = [@ EXCEPT !.pc = "replace", !.fd = 0, !.buf = 0]]
    /\ UNCHANGED names
    /\ UNCHANGED searchVars

\* temp_path.replace(destination): raises when the temporary file is gone
Replace(p) ==
    /\ proc[p].pc = "replace"
    /\ IF names.tmp = 0
       THEN /\ names' = names
            /\ proc' = [proc EXCEPT ![p] = [@ EXCEPT !.pc = "idle", !.outcome = "error"]]
       ELSE /\ names' = [tmp |-> 0, dest |-> names.tmp]
            /\ proc' = [proc EXCEPT ![p] = [@ EXCEPT !.pc = "idle", !.outcome = "ok"]]
    /\ UNCHANGED inodes
    /\ UNCHANGED searchVars

InitDownload == table = NoFrame /\ InitSearch /\ InitCache

NextDownload ==
    \E p \in Procs :
        \/ \E force \in BOOLEAN : Call(p, force)
        \/ \E ok \in BOOLEAN : Get(p, ok)
        \/ Open(p)
        \/ \E mode \in WriteModes : Write(p, mode)
        \/ RawWrite(p)
        \/ TransferFails(p)
        \/ Close(p)
        \/ Replace(p)

SpecDownload == InitDownload /\ [][NextDownload]_vars

(***************************************************************************)
(* Properties of search_products.                                          *)
(***************************************************************************)
Searched == pc \in {"searched", "served"}

NormalizedQuery == normalize_text(StrCell(query))

\* the token-set score of each row of the indexed frame against the query
RowScores ==
    [i \in 1..Len(indexed.rows) |->
        token_set_ratio(NormalizedQuery,
                        indexed.rows[i][ColumnIndex(indexed, SearchTextColumn)].s)]

\* row i ranks before row j under the scores sc: a higher score, or the same
\* score and an earlier row index
RanksBefore(sc, i, j) ==
    \/ ScoreLt(sc[j], sc[i])
    \/ sc[i] = sc[j] /\ i < j

\* the number of rows that rank before row i
Rank(sc, i) == Cardinality({j \in DOMAIN sc : RanksBefore(sc, j, i)})

\* the rows among the first `limit` of the ranking whose score reaches min_score
KeptRows(sc) ==
    {i \in DOMAIN sc : Rank(sc, i) < limit /\ ScoreLe(min_score, sc[i])}

\* C1: the list search returns has at most `limit` entries, every entry's
\* score is at least min_score, and the scores never increase along the list.
C1_Bounded ==
    Searched =>
        /\ Len(results) <= limit
        /\ \A i \in 1..Len(results) : ScoreLe(min_score, results[i].score)
        /\ \A i \in 1..(Len(results) - 1) :
               ScoreLe(results[i + 1].score, results[i].score)

\* C1 witness: a search under a positive threshold whose limit cut a row off
\* and which returned `limit` entries of two different scores.
C1_Witness ==
    /\ Searched
    /\ limit < Len(table.rows)
    /\ Len(results) = limit
    /\ limit = 2
    /\ ScoreLt(<<0, 1>>, min_score)
    /\ ScoreLt(results[2].score, results[1].score)

\* C2: the result is the ranking of all rows by descending score, ties by
\* earlier row index, cut to its first `limit` rows, without the rows whose
\* score is below min_score; a row whose score equals min_score stays.  The
\* list that process.extract hands over is the cut ranking, threshold not yet
\* applied.
C2_RankedResult ==
    Searched =>
        \E sc \in {RowScores} :
            /\ Len(scored) = (IF limit < Len(indexed.rows) THEN limit
                              ELSE Len(indexed.rows))
            /\ \A k \in 1..Len(scored) :
                   /\ Rank(sc, scored[k].idx + 1) = k - 1
                   /\ scored[k].score = sc[scored[k].idx + 1]
            /\ Len(results) = Cardinality(KeptRows(sc))
            /\ \A i \in KeptRows(sc) :
                   LET k == Cardinality({j \in KeptRows(sc) : RanksBefore(sc, j, i)}) + 1
                   IN  /\ results[k].score = sc[i]
                       /\ results[k].source_row = ILocRow(indexed, i)

\* C2 witness: two different rows tie, the limit keeps only the earlier one,
\* and its score equals min_score.
C2_Witness ==
    /\ Searched
    /\ Len(results) = limit
    /\ limit >= 1
    /\ results[limit].score = min_score
    /\ \E sc \in {RowScores} :
           \E i, j \in DOMAIN sc :
               /\ i < j
               /\ i \in KeptRows(sc)
               /\ j \notin KeptRows(sc)
               /\ sc[i] = sc[j]
               /\ indexed.rows[i] # indexed.rows[j]

\* some row of the caller's table holds exactly the values of source_row in
\* the table's columns
HoldsOriginalValues(source_row) ==
    \E r \in 1..Len(table.rows) :
        \A j \in 1..Len(table.columns) :
            /\ table.columns[j] \in DOMAIN source_row
            /\ source_row[table.columns[j]] = table.rows[r][j]

\* C3 as stated: source_row of every MatchResult that search returns holds
\* the original values and neither of the two derived fields.
C3_Original ==
    Searched =>
        \A i \in 1..Len(results) :
            /\ HoldsOriginalValues(results[i].source_row)
            /\ SearchTextColumn \notin DOMAIN results[i].source_row
            /\ LabelColumn \notin DOMAIN results[i].source_row

\* C3 amended: source_row of every MatchResult that search returns holds the
\* original values and both derived fields; the payload of the server tool
\* holds the original values and no key that starts with "__".
C3_Amended ==
    /\ Searched =>
           \A i \in 1..Len(results) :
               /\ HoldsOriginalValues(results[i].source_row)
               /\ DOMAIN results[i].source_row
                      = Range(table.columns) \cup {SearchTextColumn, LabelColumn}
    /\ pc = "served" =>
           /\ Len(payload) = Len(results)
           /\ \A i \in 1..Len(payload) :
                  /\ HoldsOriginalValues(payload[i].source_row)
                  /\ DOMAIN payload[i].source_row = Range(table.columns)
                  /\ payload[i].score = results[i].score
                  /\ payload[i].label = results[i].label

\* C3 witness: the server tool returned a payload of two matches.
C3_Witness == pc = "served" /\ Len(payload) = 2

(***************************************************************************)
(* Properties of detect_columns.                                           *)
(***************************************************************************)
NormalizedName(col) == normalize_text(StrCell(col))

HasKeyword(col, keys) == \E k \in 1..Len(keys) : Contains(NormalizedName(col), keys[k])

NoNameKeyword == \A j \in 1..Len(table.columns) : ~HasKeyword(table.columns[j], NameKeys)

\* C4: name_columns is never empty, and it is exactly the first column when
\* no column name contains a name keyword.
C4_NameColumns ==
    schema.some =>
        /\ schema.v.name_columns # <<>>
        /\ NoNameKeyword => schema.v.name_columns = <<table.columns[1]>>

\* C4 witness: a schema detected for a table none of whose column names
\* contains a name keyword.
C4_Witness == schema.some /\ NoNameKeyword /\ Len(table.columns) >= 2

NumericSet == {col \in Range(table.columns) : is_numeric_dtype(table, col)}

PriceKeywordSet == {col \in NumericSet : HasKeyword(col, PriceKeys)}

\* cols lists distinct columns of the table in column order
InColumnOrder(cols) ==
    \A a, b \in 1..Len(cols) :
        a < b => ColumnIndex(table, cols[a]) < ColumnIndex(table, cols[b])

\* C5: price_columns holds only numeric columns: the numeric columns whose
\* normalized name contains a price keyword, or, when there is none, all the
\* numeric columns, in column order.
C5_PriceColumns ==
    schema.some =>
        /\ \A k \in 1..Len(schema.v.price_columns) :
               /\ HasColumn(table, schema.v.price_columns[k])
               /\ is_numeric_dtype(table, schema.v.price_columns[k])
        /\ Range(schema.v.price_columns)
               = (IF PriceKeywordSet # {} THEN PriceKeywordSet ELSE NumericSet)
        /\ InColumnOrder(schema.v.price_columns)

\* C5 witness: no numeric column carries a price keyword, a non-numeric column
\* does not count, and the fallback took two numeric columns.
C5_Witness ==
    /\ schema.some
    /\ PriceKeywordSet = {}
    /\ Len(schema.v.price_columns) = 2

(***************************************************************************)
(* The caller's table.                                                     *)
(***************************************************************************)
\* C6: no step of the pipeline changes the caller's table, and the derived
\* fields exist only on the copy.
C6_TableUnchanged ==
    [][/\ table' = table
       /\ ~HasColumn(table', SearchTextColumn)
       /\ ~HasColumn(table', LabelColumn)]_vars

\* C6 witness: a search has returned a match; the frame it searched carries
\* the derived fields and the caller's table does not.
C6_Witness ==
    /\ pc = "searched"
    /\ HasColumn(indexed, SearchTextColumn)
    /\ HasColumn(indexed, LabelColumn)
    /\ ~HasColumn(table, SearchTextColumn)
    /\ Len(results) >= 1

(***************************************************************************)
(* The scorer on empty text.                                               *)
(***************************************************************************)
\* C7 as stated: a row whose search text is empty scores 100 against an empty
\* normalized query and 0 against any other query.
C7_Original ==
    Searched =>
        \A k \in 1..Len(scored) :
            scored[k].text = <<>> =>
                scored[k].score = (IF NormalizedQuery = <<>> THEN <<100, 1>> ELSE <<0, 1>>)

\* C7 amended: the scorer returns 0 whenever one of its arguments is empty,
\* both being empty included: a row whose search text is empty scores 0
\* against every query, and every row scores 0 against an empty query.
C7_Amended ==
    Searched =>
        \A k \in 1..Len(scored) :
            (scored[k].text = <<>> \/ NormalizedQuery = <<>>) => scored[k].score = <<0, 1>>

\* C7 witness: an empty query was scored against a row with an empty search
\* text and against a row with a non-empty one.
C7_Witness ==
    /\ Searched
    /\ NormalizedQuery = <<>>
    /\ \E k \in 1..Len(scored) : scored[k].text = <<>>
    /\ \E k \in 1..Len(scored) : scored[k].text # <<>>

(***************************************************************************)
(* Prices and labels.                                                      *)
(***************************************************************************)
\* the cell holds a number that is present
IsRealNumber(cell) == cell.t \in {"int64", "float64"}

\* C8 as stated: the keys of prices are the price columns in which the row
\* holds a present real number, mapped to that number.
C8_Claim ==
    Searched =>
        \A i \in 1..Len(results) :
            /\ DOMAIN results[i].prices
                   = {col \in Range(schema.v.price_columns) :
                         IsRealNumber(results[i].source_row[col])}
            /\ \A col \in DOMAIN results[i].prices :
                   results[i].prices[col] = results[i].source_row[col].n

\* a value as text, a missing value being the empty string
TextOrEmpty(cell) == IF IsMissing(cell) THEN <<>> ELSE Str(cell)

\* the label as the claim describes it
ClaimedLabel(i) ==
    LET used == detect_columns(table)
        parts == [k \in 1..Len(used.name_columns) |->
                     TextOrEmpty(table.rows[i][ColumnIndex(table, used.name_columns[k])])]
        joined == Join(<<" ", "|", " ">>, parts)
    IN  IF used.brand_columns = <<>> THEN joined
        ELSE joined \o <<" ", "(">>
             \o TextOrEmpty(table.rows[i][ColumnIndex(table, used.brand_columns[1])])
             \o <<")">>

\* C9 as stated: the label of every row is its name-column values joined with
\* " | ", then " (<value>)" of the first brand column, a missing value being
\* rendered as the empty string.
C9_Claim ==
    HasColumn(indexed, LabelColumn) =>
        \A i \in 1..Len(indexed.rows) :
            indexed.rows[i][ColumnIndex(indexed, LabelColumn)] = StrCell(ClaimedLabel(i))

(***************************************************************************)
(* The download cache.                                                     *)
(***************************************************************************)
\* C10 as stated: whatever the interleaving of the calls, the cache
\* destination is absent or holds the complete content of one download, and
\* a call that found the cached file without force made no network request.
C10_Claim ==
    /\ names.dest = 0 \/ inodes[names.dest] = Complete
    /\ \A p \in Procs : proc[p].outcome = "cached" => ~proc[p].net

=============================================================================
